---- MODULE Spec2Model ----
(***************************************************************************)
(* Model of NewApproachB_MultiTask_Learning/prepare_visual_metadata.py:    *)
(* load_and_map_data(), a linear batch transform that joins the species    *)
(* list, the training manifest and two trait-mapping files into one table. *)
(* Strings are sequences of one-character strings, so that strip(),        *)
(* split(), join(), int() and the substring test are computed and not      *)
(* assumed.                                                                *)
(***************************************************************************)
EXTENDS Integers, Sequences, FiniteSets, TLC

\* Bounds on the inputs.
MaxLines == 2      \* lines of the species list file
MaxRows == 2       \* rows of the training manifest
MaxPieces == 3     \* pieces a manifest filepath is assembled from

VARIABLES
    pc,                         \* position of load_and_map_data
    os_sep,                     \* os.sep of the platform
    species_file,               \* list/species_list.txt
    train_file,                 \* list/train.txt
    shape_file,                 \* species_to_leaf_shape.json
    arr_file,                   \* species_to_leaf_arrangement.json
    classid_to_formal_name,     \* dict int -> str
    clean_name_to_formal_name,  \* dict str -> str
    shape_map_formal_keys,      \* dict str -> str
    arr_map_formal_keys,        \* dict str -> str
    df,                         \* the DataFrame: column name -> list of values
    exception,                  \* the exception that ended the process, or "None"
    stdout,                     \* the ERROR / SUCCESS lines printed
    output_file                 \* the tables written to full_visual_metadata.csv

vars == <<pc, os_sep, species_file, train_file, shape_file, arr_file,
          classid_to_formal_name, clean_name_to_formal_name,
          shape_map_formal_keys, arr_map_formal_keys,
          df, exception, stdout, output_file>>

----------------------------------------------------------------------------
\* Helpers on integers and sequences.

MinOf(S) == CHOOSE x \in S : \A y \in S : x <= y
MaxOf(S) == CHOOSE x \in S : \A y \in S : y <= x

\* Python slicing seq[:n]
FirstN(seq, n) == SubSeq(seq, 1, IF Len(seq) < n THEN Len(seq) ELSE n)

\* The sequences over S of length 0..n
SeqsUpTo(S, n) == UNION {[1..k -> S] : k \in 0..n}

\* d[k] = v on a Python dict
DictSet(d, k, v) == [x \in (DOMAIN d) \cup {k} |-> IF x = k THEN v ELSE d[x]]

EmptyDict == <<>>

\* pandas' missing value (NaN) in an object column
NULL == <<"NaN">>

----------------------------------------------------------------------------
\* Python str operations.

Whitespace == {" ", "\t", "\n", "\r"}

Digits == <<"0", "1", "2", "3", "4", "5", "6", "7", "8", "9">>

\* str.strip()
Strip(s) ==
    LET keep == {i \in 1..Len(s) : s[i] \notin Whitespace}
    IN  IF keep = {} THEN <<>> ELSE SubSeq(s, MinOf(keep), MaxOf(keep))

\* str.split(sep, 1)
SplitOnce(s, sep) ==
    LET hits == {i \in 1..Len(s) : s[i] = sep}
    IN  IF hits = {} THEN <<s>>
        ELSE <<SubSeq(s, 1, MinOf(hits) - 1), SubSeq(s, MinOf(hits) + 1, Len(s))>>

\* str.split() with no separator: the maximal runs of non-whitespace
RECURSIVE SplitWS(_)
SplitWS(s) ==
    IF s = <<>> THEN <<>>
    ELSE IF s[1] \in Whitespace THEN SplitWS(Tail(s))
    ELSE LET stops == {i \in 1..Len(s) : s[i] \in Whitespace}
             end == IF stops = {} THEN Len(s) + 1 ELSE MinOf(stops)
         IN  <<SubSeq(s, 1, end - 1)>> \o SplitWS(SubSeq(s, end, Len(s)))

\* sep.join(tokens)
RECURSIVE Join(_, _)
Join(sep, tokens) ==
    IF tokens = <<>> THEN <<>>
    ELSE IF Len(tokens) = 1 THEN tokens[1]
    ELSE tokens[1] \o sep \o Join(sep, Tail(tokens))

\* int(s) succeeds: decimal digits, surrounding whitespace allowed
IsIntLiteral(s) ==
    LET t == Strip(s)
    IN  /\ t # <<>>
        /\ \A i \in 1..Len(t) : t[i] \in {Digits[d] : d \in 1..10}

RECURSIVE DigitsValue(_)
DigitsValue(t) ==
    IF t = <<>> THEN 0
    ELSE 10 * DigitsValue(SubSeq(t, 1, Len(t) - 1))
         + (CHOOSE d \in 0..9 : Digits[d + 1] = t[Len(t)])

\* int(s)
IntOf(s) == DigitsValue(Strip(s))

\* needle in haystack
Contains(haystack, needle) ==
    \E i \in 0..(Len(haystack) - Len(needle)) :
        SubSeq(haystack, i + 1, i + Len(needle)) = needle

\* str.replace(old, new) for a one-character old
RECURSIVE Replace(_, _, _)
Replace(s, old, new) ==
    IF s = <<>> THEN <<>>
    ELSE (IF s[1] = old THEN new ELSE <<s[1]>>) \o Replace(Tail(s), old, new)

----------------------------------------------------------------------------
\* Step 1: the species list parser.

\* ParseLine with the clean-name map keyed by the full formal name.
ParseLineKeyedByFormalName(acc, line) ==
    IF Strip(line) = <<>> THEN acc
    ELSE LET parts == SplitOnce(Strip(line), ";")
         IN  IF Len(parts) # 2 \/ ~IsIntLiteral(parts[1])
             THEN [acc EXCEPT !.exception = "ValueError"]
             ELSE LET formal_name == Strip(parts[2])
                  IN  [exception |-> "None",
                       classid_to_formal_name |->
                           DictSet(acc.classid_to_formal_name, IntOf(parts[1]), formal_name),
                       clean_name_to_formal_name |->
                           DictSet(acc.clean_name_to_formal_name, formal_name, formal_name)]

\* ParseLine without formal_name_full.strip().
ParseLineNameNotStripped(acc, line) ==
    IF Strip(line) = <<>> THEN acc
    ELSE LET parts == SplitOnce(Strip(line), ";")
         IN  IF Len(parts) # 2 \/ ~IsIntLiteral(parts[1])
             THEN [acc EXCEPT !.exception = "ValueError"]
             ELSE LET formal_name == parts[2]
                      clean_name == Join(<<" ">>, FirstN(SplitWS(formal_name), 2))
                  IN  [exception |-> "None",
                       classid_to_formal_name |->
                           DictSet(acc.classid_to_formal_name, IntOf(parts[1]), formal_name),
                       clean_name_to_formal_name |->
                           DictSet(acc.clean_name_to_formal_name, clean_name, formal_name)]

\* One iteration of the loop over the lines of the species list.
ParseLine(acc, line) ==
    IF Strip(line) = <<>> THEN acc
    ELSE LET parts == SplitOnce(Strip(line), ";")
         IN  IF Len(parts) # 2 \/ ~IsIntLiteral(parts[1])
             THEN [acc EXCEPT !.exception = "ValueError"]
             ELSE LET formal_name == Strip(parts[2])
                      clean_name == Join(<<" ">>, FirstN(SplitWS(formal_name), 2))
                  IN  [exception |-> "None",
                       classid_to_formal_name |->
                           DictSet(acc.classid_to_formal_name, IntOf(parts[1]), formal_name),
                       clean_name_to_formal_name |->
                           DictSet(acc.clean_name_to_formal_name, clean_name, formal_name)]

\* The loop: stops at the first line that raises.
RECURSIVE ParseLines(_, _)
ParseLines(acc, lines) ==
    IF lines = <<>> \/ acc.exception # "None" THEN acc
    ELSE ParseLines(ParseLine(acc, Head(lines)), Tail(lines))

ParseSpeciesList(lines) ==
    ParseLines([exception |-> "None",
                classid_to_formal_name |-> EmptyDict,
                clean_name_to_formal_name |-> EmptyDict], lines)

----------------------------------------------------------------------------
\* Steps 2-4: the manifest, the species names and the domain.

\* MapDict as an inner join: the rows whose key is absent are dropped.
RECURSIVE KeepMapped(_, _)
KeepMapped(col, d) ==
    IF col = <<>> THEN <<>>
    ELSE (IF Head(col) \in DOMAIN d THEN <<d[Head(col)]>> ELSE <<>>) \o KeepMapped(Tail(col), d)

MapDictInnerJoin(col, d) == KeepMapped(col, d)

\* MapDict with the empty string where the key is absent.
MapDictEmptyForMissing(col, d) ==
    [i \in 1..Len(col) |-> IF col[i] \in DOMAIN d THEN d[col[i]] ELSE <<>>]

\* Series.map(dict): the dict's value, NaN where the key is absent
MapDict(col, d) ==
    [i \in 1..Len(col) |-> IF col[i] \in DOMAIN d THEN d[col[i]] ELSE NULL]

herbarium == <<"h","e","r","b","a","r","i","u","m">>
field == <<"f","i","e","l","d">>

\* DomainOf with path.startswith('herbarium') as the test.
DomainOfStartsWith(path) ==
    IF Len(path) >= Len(herbarium) /\ SubSeq(path, 1, Len(herbarium)) = herbarium
    THEN herbarium ELSE field

\* lambda path: 'herbarium' if 'herbarium' in path else 'field'
DomainOf(path) == IF Contains(path, herbarium) THEN herbarium ELSE field

\* pd.read_csv(TRAIN_LIST_FILE, sep=' ', header=None, names=['filepath', 'classid'])
ReadCsv(rows) ==
    [filepath |-> [i \in 1..Len(rows) |-> rows[i].filepath],
     classid  |-> [i \in 1..Len(rows) |-> rows[i].classid]]

\* df[name] = values
SetColumn(frame, name, values) ==
    [c \in (DOMAIN frame) \cup {name} |-> IF c = name THEN values ELSE frame[c]]

----------------------------------------------------------------------------
\* Step 5: the trait maps.

\* The comprehension without its filter: the subscript is evaluated for every key.
RemapUnfilteredRaisesKeyError(trait, names) ==
    \E clean_key \in DOMAIN trait : clean_key \notin DOMAIN names

\* The comprehension keeping the clean names as keys.
RemapKeysNotTranslated(trait, names) ==
    [clean_key \in {k \in DOMAIN trait : k \in DOMAIN names} |-> trait[clean_key]]

\* {clean_name_to_formal_name[clean_key]: value
\*    for clean_key, value in trait.items() if clean_key in clean_name_to_formal_name}
\* The subscript is evaluated only for the keys that pass the filter; it raises
\* KeyError for a key that is not in the dict.
RemapRaisesKeyError(trait, names) ==
    \E clean_key \in DOMAIN trait :
        /\ clean_key \in DOMAIN names
        /\ clean_key \notin DOMAIN names

RemapKeys(trait, names) ==
    LET kept == {clean_key \in DOMAIN trait : clean_key \in DOMAIN names}
    IN  [formal \in {names[clean_key] : clean_key \in kept} |->
            trait[CHOOSE clean_key \in kept : names[clean_key] = formal]]

----------------------------------------------------------------------------
\* Step 6: the categorical codes.

\* ord(c): the printable ASCII characters in code point order (the double quote
\* and the backquote, which no input here contains, are named by their code)
Ascii == <<" ","!","(34)","#","$","%","&","'","(",")","*","+",",","-",".","/",
           "0","1","2","3","4","5","6","7","8","9",":",";","<","=",">","?",
           "@","A","B","C","D","E","F","G","H","I","J","K","L","M","N","O",
           "P","Q","R","S","T","U","V","W","X","Y","Z","[","\\","]","^","_",
           "(96)","a","b","c","d","e","f","g","h","i","j","k","l","m","n","o",
           "p","q","r","s","t","u","v","w","x","y","z">>

Ord(c) ==
    IF c = "\t" THEN 9 ELSE IF c = "\n" THEN 10 ELSE IF c = "\r" THEN 13
    ELSE 31 + (CHOOSE i \in 1..Len(Ascii) : Ascii[i] = c)

\* a < b on Python str: by code point, a proper prefix first
StrLess(a, b) ==
    \E i \in 1..(Len(b)) :
        /\ i <= Len(a) + 1
        /\ SubSeq(a, 1, i - 1) = SubSeq(b, 1, i - 1)
        /\ (i = Len(a) + 1 \/ Ord(a[i]) < Ord(b[i]))

\* sorted(values)
RECURSIVE Sorted(_)
Sorted(S) ==
    IF S = {} THEN <<>>
    ELSE LET least == CHOOSE x \in S : \A y \in S \ {x} : StrLess(x, y)
         IN  <<least>> \o Sorted(S \ {least})

\* The categories in order of first appearance (pd.factorize), not sorted.
RECURSIVE Appearance(_, _)
Appearance(col, seen) ==
    IF col = <<>> THEN <<>>
    ELSE IF Head(col) = NULL \/ Head(col) \in seen THEN Appearance(Tail(col), seen)
    ELSE <<Head(col)>> \o Appearance(Tail(col), seen \cup {Head(col)})

CategoriesByAppearance(col) == Appearance(col, {})

\* Series.astype('category'): the categories are the sorted distinct non-null values
Categories(col) == Sorted({col[i] : i \in 1..Len(col)} \ {NULL})

\* .cat.codes: the position of the value in the categories, -1 for NaN
CatCodes(col) ==
    LET cats == Categories(col)
    IN  [i \in 1..Len(col) |->
            IF col[i] = NULL THEN -1
            ELSE (CHOOSE j \in 1..Len(cats) : cats[j] = col[i]) - 1]

----------------------------------------------------------------------------
\* The input files considered.

AcerRubrumL == <<"A","c","e","r"," ","r","u","b","r","u","m"," ","L",".">>
AcerRubrumMarshall == <<"A","c","e","r"," ","r","u","b","r","u","m"," ","M","a","r","s","h","a","l","l">>
Quercus == <<"Q","u","e","r","c","u","s">>
AcerRubrum == <<"A","c","e","r"," ","r","u","b","r","u","m">>
ZeaMays == <<"Z","e","a"," ","m","a","y","s">>
lobed == <<"l","o","b","e","d">>
ovate == <<"o","v","a","t","e">>
opposite == <<"o","p","p","o","s","i","t","e">>
alternate == <<"a","l","t","e","r","n","a","t","e">>

\* "105951;Acer rubrum L.\n"
LineAcerL == <<"1","0","5","9","5","1",";","A","c","e","r"," ","r","u","b","r","u","m"," ","L",".","\n">>
\* "2;Acer rubrum Marshall\n": another formal name with the clean name "Acer rubrum"
LineAcerMarshall == <<"2",";","A","c","e","r"," ","r","u","b","r","u","m"," ","M","a","r","s","h","a","l","l","\n">>
\* "105951;Quercus\n": the classid of LineAcerL again, a name of one token
LineQuercus == <<"1","0","5","9","5","1",";","Q","u","e","r","c","u","s","\n">>
\* "Abies alba\n": no semicolon
LineNoSemicolon == <<"A","b","i","e","s"," ","a","l","b","a","\n">>
\* "\n" and "   \n": blank lines
LineEmpty == <<"\n">>
LineSpaces == <<" "," "," ","\n">>
\* " 3 ; Abies \t alba  Mill. \n": whitespace around and inside
LineAbiesSpaced == <<" ","3"," ",";"," ","A","b","i","e","s"," ","\t"," ","a","l","b","a"," "," ","M","i","l","l","."," ","\n">>
\* "4;Ilex;opaca\n": a second semicolon
LineTwoSemicolons == <<"4",";","I","l","e","x",";","o","p","a","c","a","\n">>
\* "x7;Acer\n": the classid is no integer
LineBadClassid == <<"x","7",";","A","c","e","r","\n">>
\* "5;\n": an empty formal name
LineNoName == <<"5",";","\n">>

CoreLines == {LineAcerL, LineAcerMarshall, LineQuercus, LineNoSemicolon}

AllLines == CoreLines \cup {LineEmpty, LineSpaces, LineAbiesSpaced,
                            LineTwoSemicolons, LineBadClassid, LineNoName}

Missing == [exists |-> FALSE, content |-> <<>>]
File(content) == [exists |-> TRUE, content |-> content]

PathHerbarium == <<"h","e","r","b","a","r","i","u","m","/","1",".","j","p","g">>
PathPhoto == <<"p","h","o","t","o","/","2",".","j","p","g">>

PathPieces == {herbarium, <<"h","e","r","b">>, <<"a","r","i","u","m">>,
               <<"H","e","r","b","a","r","i","u","m">>, <<"/">>, <<"p","h","o","t","o">>}

\* The concatenation of a sequence of strings
RECURSIVE Concat(_)
Concat(pieces) == IF pieces = <<>> THEN <<>> ELSE Head(pieces) \o Concat(Tail(pieces))

AssembledPaths == {Concat(p) : p \in SeqsUpTo(PathPieces, MaxPieces) \ {<<>>}}

CoreRows == {[filepath |-> PathHerbarium, classid |-> 105951],
             [filepath |-> PathPhoto, classid |-> 105951],
             [filepath |-> PathPhoto, classid |-> 2]}

\* Trait files: keys are clean names, ZeaMays is in no species list here.
ShapeFiles ==
    {Missing,
     File((AcerRubrum :> ovate) @@ (Quercus :> lobed)),
     File((AcerRubrum :> lobed) @@ (ZeaMays :> ovate))}

ArrFiles ==
    {Missing,
     File((AcerRubrum :> opposite) @@ (Quercus :> alternate)),
     File((AcerRubrum :> alternate) @@ (ZeaMays :> opposite))}

OsSeps == {<<"/">>, <<"\\">>}

----------------------------------------------------------------------------
\* The state before load_and_map_data runs: the files on disk.

InitLocals ==
    /\ pc = "start"
    /\ classid_to_formal_name = EmptyDict
    /\ clean_name_to_formal_name = EmptyDict
    /\ shape_map_formal_keys = EmptyDict
    /\ arr_map_formal_keys = EmptyDict
    /\ df = EmptyDict
    /\ exception = "None"
    /\ stdout = <<>>
    /\ output_file = <<>>

\* Every combination of the core files.
InitCore ==
    /\ os_sep = <<"/">>
    /\ species_file \in {Missing} \cup {File(l) : l \in SeqsUpTo(CoreLines, MaxLines)}
    /\ train_file \in {Missing} \cup {File(r) : r \in SeqsUpTo(CoreRows, MaxRows)}
    /\ shape_file \in ShapeFiles
    /\ arr_file \in ArrFiles

\* Every species list over all the lines.
InitLines ==
    /\ os_sep = <<"/">>
    /\ species_file \in {File(l) : l \in SeqsUpTo(AllLines, MaxLines)}
    /\ train_file = File(<<[filepath |-> PathPhoto, classid |-> 105951]>>)
    /\ shape_file = File((AcerRubrum :> ovate) @@ (Quercus :> lobed))
    /\ arr_file = File(EmptyDict)

\* Every assembled filepath on both kinds of platform.
InitPaths ==
    /\ os_sep \in OsSeps
    /\ species_file = File(<<LineAcerL>>)
    /\ train_file \in {File(<<[filepath |-> p, classid |-> 105951]>>) : p \in AssembledPaths}
    /\ shape_file = File(EmptyDict)
    /\ arr_file = File((AcerRubrum :> opposite) @@ (Quercus :> alternate))

Init == InitLocals /\ (InitCore \/ InitLines \/ InitPaths)

----------------------------------------------------------------------------
\* load_and_map_data, one action per step.

Files == <<os_sep, species_file, train_file, shape_file, arr_file>>

\* Step 1 (lines 23-43)
LoadSpeciesList ==
    /\ pc = "start"
    /\ IF ~species_file.exists
       THEN /\ exception' = "FileNotFoundError"
            /\ pc' = "crashed"
            /\ UNCHANGED <<classid_to_formal_name, clean_name_to_formal_name>>
       ELSE LET parsed == ParseSpeciesList(species_file.content)
            IN  /\ classid_to_formal_name' = parsed.classid_to_formal_name
                /\ clean_name_to_formal_name' = parsed.clean_name_to_formal_name
                /\ exception' = parsed.exception
                /\ pc' = IF parsed.exception = "None" THEN "species_loaded" ELSE "crashed"
    /\ UNCHANGED <<Files, shape_map_formal_keys, arr_map_formal_keys, df, stdout, output_file>>

\* LoadManifest that takes a missing manifest for an empty one.
LoadManifestMissingAsEmpty ==
    /\ pc = "species_loaded"
    /\ df' = ReadCsv(train_file.content)
    /\ pc' = "manifest_loaded"
    /\ UNCHANGED <<os_sep, species_file, train_file, shape_file, arr_file,
                   classid_to_formal_name, clean_name_to_formal_name,
                   shape_map_formal_keys, arr_map_formal_keys, exception, stdout, output_file>>

\* Step 2 (lines 45-48)
LoadManifest ==
    /\ pc = "species_loaded"
    /\ IF ~train_file.exists
       THEN /\ exception' = "FileNotFoundError"
            /\ pc' = "crashed"
            /\ UNCHANGED df
       ELSE /\ df' = ReadCsv(train_file.content)
            /\ pc' = "manifest_loaded"
            /\ UNCHANGED exception
    /\ UNCHANGED <<Files, classid_to_formal_name, clean_name_to_formal_name,
                   shape_map_formal_keys, arr_map_formal_keys, stdout, output_file>>

\* Steps 3 and 4 (lines 50-57)
MapNamesAndDomain ==
    /\ pc = "manifest_loaded"
    /\ LET named == SetColumn(df, "species_name", MapDict(df.classid, classid_to_formal_name))
           moved == SetColumn(named, "filepath",
                       [i \in 1..Len(named.filepath) |-> Replace(named.filepath[i], "/", os_sep)])
       IN  df' = SetColumn(moved, "domain",
                     [i \in 1..Len(moved.filepath) |-> DomainOf(moved.filepath[i])])
    /\ pc' = "enriched"
    /\ UNCHANGED <<Files, classid_to_formal_name, clean_name_to_formal_name,
                   shape_map_formal_keys, arr_map_formal_keys, exception, stdout, output_file>>

\* Step 5 (lines 59-79)
MapDescriptors ==
    /\ pc = "enriched"
    /\ IF ~shape_file.exists \/ ~arr_file.exists
       THEN /\ stdout' = Append(stdout, "ERROR: A descriptor file was not found")
            /\ pc' = "returned"
            /\ UNCHANGED <<shape_map_formal_keys, arr_map_formal_keys, df>>
       ELSE IF RemapRaisesKeyError(shape_file.content, clean_name_to_formal_name)
       THEN /\ stdout' = Append(stdout, "ERROR: A key mismatch occurred")
            /\ pc' = "returned"
            /\ UNCHANGED <<shape_map_formal_keys, arr_map_formal_keys, df>>
       ELSE IF RemapRaisesKeyError(arr_file.content, clean_name_to_formal_name)
       THEN /\ stdout' = Append(stdout, "ERROR: A key mismatch occurred")
            /\ pc' = "returned"
            /\ shape_map_formal_keys' = RemapKeys(shape_file.content, clean_name_to_formal_name)
            /\ UNCHANGED <<arr_map_formal_keys, df>>
       ELSE /\ shape_map_formal_keys' = RemapKeys(shape_file.content, clean_name_to_formal_name)
            /\ arr_map_formal_keys' = RemapKeys(arr_file.content, clean_name_to_formal_name)
            /\ df' = SetColumn(
                        SetColumn(df, "leaf_shape",
                                  MapDict(df.species_name, shape_map_formal_keys')),
                        "leaf_arrangement",
                        MapDict(df.species_name, arr_map_formal_keys'))
            /\ pc' = "described"
            /\ UNCHANGED stdout
    /\ UNCHANGED <<Files, classid_to_formal_name, clean_name_to_formal_name,
                   exception, output_file>>

\* Step 6 (lines 81-85)
CreateLabels ==
    /\ pc = "described"
    /\ df' = SetColumn(
                SetColumn(
                    SetColumn(df, "species_label", CatCodes(df.species_name)),
                    "leaf_shape_label", CatCodes(df.leaf_shape)),
                "leaf_arrangement_label", CatCodes(df.leaf_arrangement))
    /\ pc' = "labelled"
    /\ UNCHANGED <<Files, classid_to_formal_name, clean_name_to_formal_name,
                   shape_map_formal_keys, arr_map_formal_keys, exception, stdout, output_file>>

\* Steps 7 and 8 (lines 87-100)
SaveOutput ==
    /\ pc = "labelled"
    /\ output_file' = Append(output_file, df)
    /\ stdout' = Append(stdout, "SUCCESS: The final unified metadata has been saved")
    /\ pc' = "returned"
    /\ UNCHANGED <<Files, classid_to_formal_name, clean_name_to_formal_name,
                   shape_map_formal_keys, arr_map_formal_keys, df, exception>>

Next ==
    \/ LoadSpeciesList
    \/ LoadManifest
    \/ MapNamesAndDomain
    \/ MapDescriptors
    \/ CreateLabels
    \/ SaveOutput

Spec == Init /\ [][Next]_vars

----------------------------------------------------------------------------
\* The species list as the specification describes it.

\* A line that is not blank
NonBlank(line) == \E i \in 1..Len(line) : line[i] \notin Whitespace

\* The position of the first ";" of the line
FirstSemicolon(line) ==
    CHOOSE i \in 1..Len(line) : line[i] = ";" /\ \A j \in 1..(i - 1) : line[j] # ";"

\* text without the whitespace around it
Trimmed(text) ==
    IF \A i \in 1..Len(text) : text[i] \in Whitespace THEN <<>>
    ELSE LET a == CHOOSE i \in 1..Len(text) :
                      text[i] \notin Whitespace /\ \A j \in 1..(i - 1) : text[j] \in Whitespace
             b == CHOOSE i \in 1..Len(text) :
                      text[i] \notin Whitespace /\ \A j \in (i + 1)..Len(text) : text[j] \in Whitespace
         IN  [k \in 1..(b - a + 1) |-> text[a + k - 1]]

\* The formal name of a line: the text after the first ";", trimmed
StatedFormalName(line) ==
    Trimmed([k \in 1..(Len(line) - FirstSemicolon(line)) |-> line[FirstSemicolon(line) + k]])

\* The classid of a line: the number before the first ";"
StatedClassid(line) ==
    IntOf([k \in 1..(FirstSemicolon(line) - 1) |-> line[k]])

\* The tokens of a name: <<a, b>> with name[a..b] a maximal run without whitespace
TokenSpans(name) ==
    {ab \in (1..Len(name)) \X (1..Len(name)) :
        /\ ab[1] <= ab[2]
        /\ \A k \in ab[1]..ab[2] : name[k] \notin Whitespace
        /\ (ab[1] = 1 \/ name[ab[1] - 1] \in Whitespace)
        /\ (ab[2] = Len(name) \/ name[ab[2] + 1] \in Whitespace)}

\* The clean name of a formal name: its first two tokens and one space between
\* them, the whole name when it has fewer than two tokens
StatedCleanName(name) ==
    LET spans == TokenSpans(name)
        first == CHOOSE ab \in spans : \A cd \in spans : ab[1] <= cd[1]
        second == CHOOSE ab \in spans \ {first} : \A cd \in spans \ {first} : ab[1] <= cd[1]
    IN  IF Cardinality(spans) < 2 THEN name
        ELSE SubSeq(name, first[1], first[2]) \o <<" ">> \o SubSeq(name, second[1], second[2])

\* The non-blank lines of the species list, by position
SpeciesLines == {i \in 1..Len(species_file.content) : NonBlank(species_file.content[i])}

SpeciesLine(i) == species_file.content[i]

\* The species list has just been parsed without an error
SpeciesParsed == pc = "species_loaded"

----------------------------------------------------------------------------
\* C1 as stated: after n valid non-blank lines both maps have exactly n entries,
\* also when lines share a classid or two formal names share their first two
\* tokens.
C1_OneEntryPerLine ==
    SpeciesParsed =>
        /\ Cardinality(DOMAIN classid_to_formal_name) = Cardinality(SpeciesLines)
        /\ Cardinality(DOMAIN clean_name_to_formal_name) = Cardinality(SpeciesLines)

\* C1 as amended: the classid map has one entry per distinct classid of the
\* lines and the clean-name map one entry per distinct clean name; both have
\* exactly n entries when the n lines have pairwise distinct classids and
\* pairwise distinct clean names, and fewer otherwise.
C1_OneEntryPerDistinctKey ==
    SpeciesParsed =>
        LET classids == {StatedClassid(SpeciesLine(i)) : i \in SpeciesLines}
            cleans == {StatedCleanName(StatedFormalName(SpeciesLine(i))) : i \in SpeciesLines}
        IN  /\ DOMAIN classid_to_formal_name = classids
            /\ DOMAIN clean_name_to_formal_name = cleans
            /\ Cardinality(DOMAIN classid_to_formal_name) <= Cardinality(SpeciesLines)
            /\ Cardinality(DOMAIN clean_name_to_formal_name) <= Cardinality(SpeciesLines)
            /\ (Cardinality(classids) = Cardinality(SpeciesLines)
                    <=> Cardinality(DOMAIN classid_to_formal_name) = Cardinality(SpeciesLines))
            /\ (Cardinality(cleans) = Cardinality(SpeciesLines)
                    <=> Cardinality(DOMAIN clean_name_to_formal_name) = Cardinality(SpeciesLines))

\* Two lines with different classids whose formal names share the clean name
\* have been parsed: two entries in one map, one in the other.
C1_Witness ==
    /\ SpeciesParsed
    /\ species_file.content = <<LineAcerL, LineAcerMarshall>>
    /\ Cardinality(DOMAIN classid_to_formal_name) = 2
    /\ Cardinality(DOMAIN clean_name_to_formal_name) = 1

----------------------------------------------------------------------------
\* C8: for every line "classid;formal_name" the formal name is the text after
\* the first ";" with the surrounding whitespace stripped and the clean name is
\* its first two whitespace-separated tokens joined by one space (the whole name
\* when it has fewer than two tokens); each is stored under the line's classid
\* and clean name (the last line of a key is the one that stays). The line
\* "105951;Acer rubrum L." yields "Acer rubrum" and "Acer rubrum L.".
C8_FormalAndCleanName ==
    SpeciesParsed =>
        /\ \A i \in SpeciesLines :
              LET classid == StatedClassid(SpeciesLine(i))
                  formal == StatedFormalName(SpeciesLine(i))
                  clean == StatedCleanName(formal)
              IN  /\ classid \in DOMAIN classid_to_formal_name
                  /\ clean \in DOMAIN clean_name_to_formal_name
                  /\ (\A j \in SpeciesLines : j > i => StatedClassid(SpeciesLine(j)) # classid)
                        => classid_to_formal_name[classid] = formal
                  /\ (\A j \in SpeciesLines :
                          j > i => StatedCleanName(StatedFormalName(SpeciesLine(j))) # clean)
                        => clean_name_to_formal_name[clean] = formal
        /\ (species_file.content # <<>>
               /\ species_file.content[Len(species_file.content)] = LineAcerL)
              => /\ classid_to_formal_name[105951] = AcerRubrumL
                 /\ clean_name_to_formal_name[AcerRubrum] = AcerRubrumL

\* A line with whitespace around the classid, around the name and between its
\* tokens has been parsed next to the line of the example.
C8_Witness ==
    /\ SpeciesParsed
    /\ species_file.content = <<LineAbiesSpaced, LineAcerL>>
    /\ 3 \in DOMAIN classid_to_formal_name
    /\ 105951 \in DOMAIN classid_to_formal_name

----------------------------------------------------------------------------
\* The run as the specification describes it.

ManifestRows == train_file.content

\* The table written to the output file by a run that completed
Written == output_file # <<>>
OutputTable == output_file[1]

\* A species-list line the parser cannot take: no ";" or no integer before it
Malformed(line) ==
    /\ NonBlank(line)
    /\ \/ \A i \in 1..Len(line) : line[i] # ";"
       \/ ~IsIntLiteral([k \in 1..(FirstSemicolon(line) - 1) |-> line[k]])

SpeciesListFails ==
    \/ ~species_file.exists
    \/ \E i \in 1..Len(species_file.content) : Malformed(species_file.content[i])

TraitFileMissing == ~shape_file.exists \/ ~arr_file.exists

\* The positions at which the frame has the columns named
HasNames == pc \in {"enriched", "described", "labelled"} \/ (pc = "returned")
HasTraits == pc \in {"described", "labelled"} \/ (pc = "returned" /\ Written)
HasLabels == pc = "labelled" \/ (pc = "returned" /\ Written)

OutputColumns ==
    {"filepath", "classid", "species_name", "domain", "leaf_shape", "leaf_arrangement",
     "species_label", "leaf_shape_label", "leaf_arrangement_label"}

\* "herbarium" occurs in the path, character by character
HasHerbarium(path) ==
    \E start \in 1..Len(path) :
        /\ start + 8 <= Len(path)
        /\ path[start] = "h" /\ path[start + 1] = "e" /\ path[start + 2] = "r"
        /\ path[start + 3] = "b" /\ path[start + 4] = "a" /\ path[start + 5] = "r"
        /\ path[start + 6] = "i" /\ path[start + 7] = "u" /\ path[start + 8] = "m"

----------------------------------------------------------------------------
\* C2: in a run that completes the output table has exactly one row per manifest
\* row, in manifest order, with the classid unchanged; a row whose species has
\* no entry in a trait map, or whose species_name is null, is kept with a null
\* trait.
C2_OneRowPerManifestRow ==
    Written =>
        /\ DOMAIN OutputTable = OutputColumns
        /\ \A c \in DOMAIN OutputTable : Len(OutputTable[c]) = Len(ManifestRows)
        /\ \A i \in 1..Len(ManifestRows) :
              /\ OutputTable.classid[i] = ManifestRows[i].classid
              /\ Len(OutputTable.filepath[i]) = Len(ManifestRows[i].filepath)
              /\ \A k \in 1..Len(ManifestRows[i].filepath) :
                    \/ OutputTable.filepath[i][k] = ManifestRows[i].filepath[k]
                    \/ ManifestRows[i].filepath[k] = "/" /\ <<OutputTable.filepath[i][k]>> = os_sep
              /\ OutputTable.species_name[i] \notin DOMAIN shape_map_formal_keys
                    => OutputTable.leaf_shape[i] = NULL
              /\ OutputTable.species_name[i] \notin DOMAIN arr_map_formal_keys
                    => OutputTable.leaf_arrangement[i] = NULL

\* A table of two rows has been written, one row with a trait and one without.
C2_Witness ==
    /\ Written
    /\ Len(ManifestRows) = 2
    /\ OutputTable.leaf_shape[1] = NULL
    /\ OutputTable.leaf_shape[2] # NULL
    /\ OutputTable.species_name[1] # NULL

----------------------------------------------------------------------------
\* C3: the output file is written only as the last step of a run in which every
\* earlier stage succeeded. A run that fails on the species list or on the
\* manifest ends with the exception unhandled, nothing printed and nothing
\* written; a missing trait file is caught and reported, and the run returns
\* before the labels are made and before the file is written.
C3_NoPartialOutput ==
    LET speciesFails == SpeciesListFails
    IN  /\ Written =>
              /\ pc = "returned" /\ exception = "None"
              /\ Len(output_file) = 1
              /\ stdout = <<"SUCCESS: The final unified metadata has been saved">>
              /\ ~speciesFails /\ train_file.exists /\ ~TraitFileMissing
        /\ speciesFails =>
              /\ pc \in {"start", "crashed"}
              /\ pc = "crashed" => exception \in {"ValueError", "FileNotFoundError"}
        /\ (~speciesFails /\ ~train_file.exists) =>
              /\ pc \in {"start", "species_loaded", "crashed"}
              /\ pc = "crashed" => exception = "FileNotFoundError"
        /\ pc = "crashed" =>
              /\ speciesFails \/ ~train_file.exists
              /\ stdout = <<>> /\ ~Written
        /\ (~speciesFails /\ train_file.exists /\ TraitFileMissing) =>
              /\ pc \in {"start", "species_loaded", "manifest_loaded", "enriched", "returned"}
              /\ pc = "returned" =>
                    /\ stdout = <<"ERROR: A descriptor file was not found">>
                    /\ exception = "None"
                    /\ ~Written
                    /\ DOMAIN df = {"filepath", "classid", "species_name", "domain"}

\* A run has returned on a missing trait file after the first one was read.
C3_Witness ==
    /\ pc = "returned"
    /\ shape_file.exists /\ ~arr_file.exists
    /\ Len(stdout) = 1
    /\ ~Written

----------------------------------------------------------------------------
\* The trait files hold a clean-name key that the clean-name map does not have.
UnresolvedKey ==
    /\ shape_file.exists /\ arr_file.exists
    /\ \E k \in (DOMAIN shape_file.content) \cup (DOMAIN arr_file.content) :
          k \notin DOMAIN clean_name_to_formal_name

----------------------------------------------------------------------------
\* C5: each remapped trait map holds exactly the entries (names[k], v) for the
\* keys k of the trait file that the clean-name map has; the other entries are
\* dropped without an error and the run goes on to the output writer; each
\* record's trait is the remapped map's value at its species_name, null when
\* absent.
RemappedExactly(formal_keys, trait) ==
    /\ \A k \in DOMAIN trait :
          k \in DOMAIN clean_name_to_formal_name =>
              /\ clean_name_to_formal_name[k] \in DOMAIN formal_keys
              /\ formal_keys[clean_name_to_formal_name[k]] = trait[k]
    /\ \A f \in DOMAIN formal_keys :
          \E k \in DOMAIN trait :
              /\ k \in DOMAIN clean_name_to_formal_name
              /\ clean_name_to_formal_name[k] = f

JoinedExactly(names, traits, formal_keys) ==
    /\ Len(traits) = Len(names)
    /\ \A i \in 1..Len(names) :
          /\ names[i] \in DOMAIN formal_keys => traits[i] = formal_keys[names[i]]
          /\ names[i] \notin DOMAIN formal_keys => traits[i] = NULL

C5_TraitRemapping ==
    /\ HasTraits =>
          /\ RemappedExactly(shape_map_formal_keys, shape_file.content)
          /\ RemappedExactly(arr_map_formal_keys, arr_file.content)
          /\ JoinedExactly(df.species_name, df.leaf_shape, shape_map_formal_keys)
          /\ JoinedExactly(df.species_name, df.leaf_arrangement, arr_map_formal_keys)
    /\ (pc = "returned" /\ ~TraitFileMissing) => Written

\* A trait file with a matched and an unmatched key has been remapped and
\* joined onto a row of the matched species.
C5_Witness ==
    /\ pc = "described"
    /\ ZeaMays \in DOMAIN shape_file.content
    /\ DOMAIN shape_map_formal_keys = {AcerRubrumL}
    /\ Len(df.leaf_shape) >= 1
    /\ df.leaf_shape[1] = lobed

----------------------------------------------------------------------------
\* C6: for every manifest row the domain is "herbarium" if and only if the
\* literal, case-sensitive substring "herbarium" occurs in the filepath, and
\* "field" otherwise, for the filepath as read from the manifest and for the
\* filepath after "/" has become the separator of the platform.
C6_DomainIffHerbarium ==
    HasNames =>
        /\ Len(df.domain) = Len(ManifestRows)
        /\ \A i \in 1..Len(ManifestRows) :
              /\ df.domain[i] \in {herbarium, field}
              /\ df.domain[i] = herbarium <=> HasHerbarium(ManifestRows[i].filepath)
              /\ df.domain[i] = herbarium <=> HasHerbarium(df.filepath[i])
              /\ df.domain[i] = field <=> ~HasHerbarium(ManifestRows[i].filepath)

\* A path with "herbarium" after a separator has been classified on a platform
\* whose separator is the backslash.
C6_Witness ==
    /\ pc = "enriched"
    /\ os_sep = <<"\\">>
    /\ Len(ManifestRows) = 1
    /\ ManifestRows[1].filepath = <<"p","h","o","t","o","/","h","e","r","b","a","r","i","u","m">>
    /\ df.domain[1] = herbarium

----------------------------------------------------------------------------
\* C7: for every manifest row, species_name is the formal name the species list
\* records for the row's classid when the classid is a key of the classid map,
\* and null otherwise; no row is rejected and no error is raised for an unknown
\* classid.
C7_SpeciesNameOrNull ==
    /\ HasNames =>
          LET classidOf == [j \in SpeciesLines |-> StatedClassid(SpeciesLine(j))]
          IN  /\ Len(df.species_name) = Len(ManifestRows)
              /\ \A i \in 1..Len(ManifestRows) :
                    LET lines == {j \in SpeciesLines : classidOf[j] = ManifestRows[i].classid}
                        last == CHOOSE j \in lines : \A k \in lines : k <= j
                    IN  /\ (ManifestRows[i].classid \in DOMAIN classid_to_formal_name)
                              <=> lines # {}
                        /\ lines # {} =>
                              /\ df.species_name[i] = StatedFormalName(SpeciesLine(last))
                              /\ df.species_name[i]
                                    = classid_to_formal_name[ManifestRows[i].classid]
                        /\ lines = {} => df.species_name[i] = NULL
    /\ pc = "crashed" => (SpeciesListFails \/ ~train_file.exists)

\* A manifest with a known and an unknown classid has been joined.
C7_Witness ==
    /\ pc = "enriched"
    /\ Len(ManifestRows) = 2
    /\ df.species_name[1] = NULL
    /\ df.species_name[2] = AcerRubrumL

----------------------------------------------------------------------------
\* C9: for each of the three label columns the code of a row is the zero-based
\* lexicographic rank of the row's value among the distinct non-null values of
\* the column, and -1 when the value is null; two rows have the same code iff
\* they have the same value, so the codes depend on the set of values only.
RankCodes(values, codes) ==
    /\ Len(codes) = Len(values)
    /\ \A i \in 1..Len(values) :
          /\ values[i] = NULL => codes[i] = -1
          /\ values[i] # NULL =>
                codes[i] = Cardinality({w \in {values[j] : j \in 1..Len(values)} \ {NULL} :
                                           StrLess(w, values[i])})
          /\ \A j \in 1..Len(values) : codes[i] = codes[j] <=> values[i] = values[j]

C9_LabelCodes ==
    HasLabels =>
        /\ RankCodes(df.species_name, df.species_label)
        /\ RankCodes(df.leaf_shape, df.leaf_shape_label)
        /\ RankCodes(df.leaf_arrangement, df.leaf_arrangement_label)

\* Two rows whose species names appear in descending order have been coded, by
\* rank and not by appearance, and a null trait has the code -1.
C9_Witness ==
    /\ pc = "labelled"
    /\ df.species_name = <<AcerRubrumMarshall, AcerRubrumL>>
    /\ df.species_label = <<1, 0>>
    /\ df.leaf_shape_label[2] = -1

----------------------------------------------------------------------------
\* C10 as stated: for every output row with a species_name, if the clean name of
\* the species_name is a key of a trait file then the row's trait is the trait
\* file's value for that key, also when several formal names of the species
\* list share the clean name.
C10_CoveredSpeciesHasTrait ==
    HasTraits =>
        \A i \in 1..Len(df.species_name) :
            df.species_name[i] # NULL =>
                LET clean == StatedCleanName(df.species_name[i])
                IN  /\ clean \in DOMAIN shape_file.content
                          => df.leaf_shape[i] = shape_file.content[clean]
                    /\ clean \in DOMAIN arr_file.content
                          => df.leaf_arrangement[i] = arr_file.content[clean]

====
